---- MODULE Spec2Model ----
(***************************************************************************)
(* A model of compiler.c: the lexer (scan_token), the recursive-descent     *)
(* parser (parser_program and below), the variable table (find_var_slot,   *)
(* get_var_slot) and the tree-walking evaluator (eval_expr, exect_stmt,    *)
(* exec_program), driven as main() drives them.                            *)
(*                                                                         *)
(* The input buffer is a sequence of one-character strings closed by NUL.  *)
(* Pointers into the buffer are 1-based indices.  A double is modelled as  *)
(* an exact signed rational, or an infinity, or NaN; rounding, overflow    *)
(* and the sign of a NaN are not modelled.                                 *)
(***************************************************************************)
EXTENDS Integers, Sequences, FiniteSets, TLC

VARIABLES
    source,     \* char buffer[4096] after fgets: the line, closed by NUL
    lexer,      \* static Lexer lexer: [start, current]
    parser,     \* static Parser parser: [current |-> Token]
    pc,         \* where main() stands
    program,    \* the statement list parser_program builds (head .. tail)
    current,    \* exec_program's cursor: index of the statement to execute
    vars,       \* static Var vars[MAX_VARS]
    effects,    \* history: the printf calls and slot writes made so far
    err         \* the message written to stderr before exit(1), or NoError

allvars == <<source, lexer, parser, pc, program, current, vars, effects, err>>

------------------------------------------------------------------------------
(* Characters *)

NUL == "NUL"

Digits == {"0", "1", "2", "3", "4", "5", "6", "7", "8", "9"}

DigitSeq == <<"0", "1", "2", "3", "4", "5", "6", "7", "8", "9">>

Letters ==
    {"a", "b", "c", "d", "e", "f", "g", "h", "i", "j", "k", "l", "m",
     "n", "o", "p", "q", "r", "s", "t", "u", "v", "w", "x", "y", "z",
     "A", "B", "C", "D", "E", "F", "G", "H", "I", "J", "K", "L", "M",
     "N", "O", "P", "Q", "R", "S", "T", "U", "V", "W", "X", "Y", "Z"}

Whitespace == {" ", "\t", "\r", "\n"}

isdigit(c) == c \in Digits

isalpha(c) == c \in Letters

is_alpha_or_underscore(c) == isalpha(c) \/ c = "_"

------------------------------------------------------------------------------
(* Lexer *)

\* Token.start of the token error_token builds: it points at the message
\* literal, not into the buffer.
MsgPtr == 0

UnexpectedCharacter == "Unexpected character."

\* strlen("Unexpected character.")
UnexpectedCharacterLen == 21

\* init_lexer(source)
init_lexer == [start |-> 1, current |-> 1]

peek(lx) == source[lx.current]

is_at_end(lx) == source[lx.current] = NUL

\* The cursor after a loop of the form  while (peek() is in class) advance();
\* the first position at or after lx.current whose character is not in the
\* class (the NUL that ends the line is in no class).
loop_end(lx, class) ==
    CHOOSE j \in lx.current..Len(source) :
        /\ source[j] \notin class
        /\ \A k \in lx.current..(j - 1) : source[k] \in class

skip_whitespace(lx) == [lx EXCEPT !.current = loop_end(lx, Whitespace)]

make_token(lx, type) ==
    [type |-> type, start |-> lx.start, length |-> lx.current - lx.start]

error_token(message, len) ==
    [type |-> "TOKEN_EOF", start |-> MsgPtr, length |-> len]

\* The loop of number(): the lexer after the run of digits.
number_loop(lx) == [lx EXCEPT !.current = loop_end(lx, Digits)]

number_token(l) == [lexer |-> l, tok |-> make_token(l, "TOKEN_NUMBER")]

number(lx) == number_token(number_loop(lx))

\* The loop of identifier().
\* the characters c with is_alpha_or_underscore(c) || isdigit(c)
identifier_chars == Letters \cup {"_"} \cup Digits

identifier_loop(lx) == [lx EXCEPT !.current = loop_end(lx, identifier_chars)]

Print5 == <<"p", "r", "i", "n", "t">>

\* is_print_keyword without the test of the length: any identifier that
\* begins with "print" is taken for the keyword
is_print_keyword_prefix(l) ==
    /\ l.current - l.start >= 5
    /\ SubSeq(source, l.start, l.start + 4) = Print5

\* length == 5 && strncmp(lexer.start, "print", 5) == 0
is_print_keyword(l) ==
    /\ l.current - l.start = 5
    /\ SubSeq(source, l.start, l.start + 4) = Print5

\* identifier() after its loop
identifier_token(l) ==
    IF is_print_keyword(l)
    THEN [lexer |-> l, tok |-> make_token(l, "TOKEN_PRINT")]
    ELSE [lexer |-> l, tok |-> make_token(l, "TOKEN_IDENTIFIER")]

identifier(lx) == identifier_token(identifier_loop(lx))

punctuation(c) ==
    CASE c = "+" -> "TOKEN_PLUS"
      [] c = "-" -> "TOKEN_MINUS"
      [] c = "*" -> "TOKEN_STAR"
      [] c = "/" -> "TOKEN_SLASH"
      [] c = "=" -> "TOKEN_EQUAL"
      [] c = ";" -> "TOKEN_SEMICOLON"
      [] c = "(" -> "TOKEN_LPAREN"
      [] c = ")" -> "TOKEN_RPAREN"
      [] OTHER -> "none"

\* scan_token() from "char c = advance();" on: lx is the lexer before the
\* advance, c the character it returns
scan_char(lx, c) ==
    IF isdigit(c) THEN number([lx EXCEPT !.current = @ + 1])
    ELSE IF is_alpha_or_underscore(c)
    THEN identifier([lx EXCEPT !.current = @ + 1])
    ELSE IF punctuation(c) # "none"
    THEN [lexer |-> [lx EXCEPT !.current = @ + 1],
          tok |-> make_token([lx EXCEPT !.current = @ + 1], punctuation(c))]
    ELSE [lexer |-> [lx EXCEPT !.current = @ + 1],
          tok |-> error_token(UnexpectedCharacter, UnexpectedCharacterLen)]

\* scan_token() from "lexer.start = lexer.current;" on
scan_after_whitespace(ws) ==
    IF is_at_end(ws)
    THEN [lexer |-> [ws EXCEPT !.start = ws.current],
          tok |-> make_token([ws EXCEPT !.start = ws.current], "TOKEN_EOF")]
    ELSE scan_char([ws EXCEPT !.start = ws.current], peek(ws))

\* scan_token(): the lexer after the call and the token returned
scan_token(lx) == scan_after_whitespace(skip_whitespace(lx))

------------------------------------------------------------------------------
(* double: [k, n, d, s] with k in {"fin", "inf", "nan"}; a finite value is *)
(* s * n / d in lowest terms, and a zero keeps its sign s as IEEE-754 does  *)

RECURSIVE gcd(_, _)
gcd(a, b) == IF b = 0 THEN a ELSE gcd(b, a % b)

Fin(s, n, d) == [k |-> "fin", n |-> n \div gcd(n, d), d |-> d \div gcd(n, d), s |-> s]

Inf(s) == [k |-> "inf", n |-> 0, d |-> 1, s |-> s]

NaN == [k |-> "nan", n |-> 0, d |-> 1, s |-> 1]

Zero == Fin(1, 0, 1)

abs(x) == IF x < 0 THEN -x ELSE x

\* left + right
d_add(a, b) ==
    IF a.k = "nan" \/ b.k = "nan" THEN NaN
    ELSE IF a.k = "inf" /\ b.k = "inf" THEN (IF a.s = b.s THEN a ELSE NaN)
    ELSE IF a.k = "inf" THEN a
    ELSE IF b.k = "inf" THEN b
    ELSE LET num == a.s * a.n * b.d + b.s * b.n * a.d
             den == a.d * b.d
         IN  IF num # 0 THEN Fin(IF num < 0 THEN -1 ELSE 1, abs(num), den)
             ELSE IF a.n = 0 /\ b.n = 0 /\ a.s = -1 /\ b.s = -1
                  THEN Fin(-1, 0, 1)
                  ELSE Fin(1, 0, 1)

d_neg(a) == IF a.k = "nan" THEN a ELSE [a EXCEPT !.s = -a.s]

\* left - right
d_sub(a, b) == d_add(a, d_neg(b))

\* left * right
d_mul(a, b) ==
    IF a.k = "nan" \/ b.k = "nan" THEN NaN
    ELSE IF a.k = "inf" \/ b.k = "inf"
         THEN (IF (a.k = "fin" /\ a.n = 0) \/ (b.k = "fin" /\ b.n = 0)
               THEN NaN
               ELSE Inf(a.s * b.s))
    ELSE Fin(a.s * b.s, a.n * b.n, a.d * b.d)

\* left / right: a zero divisor gives an infinity or NaN, never an error
d_div(a, b) ==
    IF a.k = "nan" \/ b.k = "nan" THEN NaN
    ELSE IF a.k = "inf" THEN (IF b.k = "inf" THEN NaN ELSE Inf(a.s * b.s))
    ELSE IF b.k = "inf" THEN Fin(a.s * b.s, 0, 1)
    ELSE IF b.n = 0 THEN (IF a.n = 0 THEN NaN ELSE Inf(a.s * b.s))
    ELSE Fin(a.s * b.s, a.n * b.d, a.d * b.n)

DigitVal(c) == (CHOOSE i \in 1..10 : DigitSeq[i] = c) - 1

\* strtod on a string of decimal digits
RECURSIVE strtod_int(_)
strtod_int(s) ==
    IF s = <<>> THEN 0
    ELSE 10 * strtod_int(SubSeq(s, 1, Len(s) - 1)) + DigitVal(s[Len(s)])

strtod(s) == Fin(1, strtod_int(s), 1)

------------------------------------------------------------------------------
(* Variable table *)

MAX_VARS == 64

\* sizeof(vars[i].name)
SizeofVarName == 64

\* sizeof(expr->as.variable.name)
SizeofExprName == 64

\* sizeof(stmt->as.assign_stmt.name)
SizeofStmtName == 64

\* sizeof(temp) in parser_factor
SizeofTemp == 64

NULL == -1

NoError == "none"

\* static storage: every slot zeroed
vars_zeroed == [i \in 0..(MAX_VARS - 1) |-> [name |-> <<>>, value |-> Zero, is_set |-> 0]]

\* the test of find_var_slot's loop body for slot i
slot_matches(vs, i, name, length) ==
    /\ vs[i].is_set = 1
    /\ Len(vs[i].name) = length
    /\ SubSeq(vs[i].name, 1, length) = SubSeq(name, 1, length)

\* find_var_slot: the index of the first matching slot, or NULL
find_var_slot(vs, name, length) ==
    IF \E i \in 0..(MAX_VARS - 1) : slot_matches(vs, i, name, length)
    THEN CHOOSE i \in 0..(MAX_VARS - 1) :
            /\ slot_matches(vs, i, name, length)
            /\ \A j \in 0..(i - 1) : ~slot_matches(vs, j, name, length)
    ELSE NULL

TooManyVariables == "Too many variables (limit 64)"

\* the loop of get_var_slot: the first free slot i takes the name, cut to
\* sizeof(name) - 1 characters
claim_slot(vs, i, name, length) ==
    [ok |-> TRUE, slot |-> i,
     vars |-> [vs EXCEPT ![i] =
                  [name |-> SubSeq(name, 1, IF length >= SizeofVarName
                                            THEN SizeofVarName - 1
                                            ELSE length),
                   value |-> Zero,
                   is_set |-> 1]],
     err |-> NoError]

\* get_var_slot after find_var_slot returned v
get_var_slot_found(vs, v, name, length) ==
    IF v # NULL THEN [ok |-> TRUE, slot |-> v, vars |-> vs, err |-> NoError]
    ELSE IF \E i \in 0..(MAX_VARS - 1) : vs[i].is_set = 0
    THEN claim_slot(vs,
                    CHOOSE i \in 0..(MAX_VARS - 1) :
                        /\ vs[i].is_set = 0
                        /\ \A j \in 0..(i - 1) : vs[j].is_set # 0,
                    name, length)
    ELSE [ok |-> FALSE, slot |-> NULL, vars |-> vs, err |-> TooManyVariables]

\* get_var_slot: the slot found or created, and the table after the call;
\* exit(1) when every slot is taken
get_var_slot(vs, name, length) ==
    get_var_slot_found(vs, find_var_slot(vs, name, length), name, length)

------------------------------------------------------------------------------
(* Parser.  The parser state threaded through the rules is the pair of     *)
(* globals the rules read and write: p == [current |-> parser.current,     *)
(* lexer |-> lexer].  A rule yields [ok, expr or stmt, p, err]; ok = FALSE *)
(* is the exit(1) of the rule, err the message it wrote.                   *)

\* the two globals after scan_token() returned r
parser_after(r) == [current |-> r.tok, lexer |-> r.lexer]

\* advance_parser(): parser.current = scan_token()
advance_parser(p) == parser_after(scan_token(p.lexer))

new_number_expr(value) == [type |-> "EXPR_NUMBER", value |-> value]

new_binary_expr(left, op, right) ==
    [type |-> "EXPR_BINARY", left |-> left, op |-> op, right |-> right]

\* new_variable_expr(name_token.start, name_token.length): the name is
\* copied, cut to sizeof(name) - 1 characters.  tok is a history field: the
\* span of the name as written in the source.
new_variable_expr(start, length) ==
    [type |-> "EXPR_VARIABLE",
     name |-> SubSeq(source, start,
                     start + (IF length >= SizeofExprName
                              THEN SizeofExprName - 1
                              ELSE length) - 1),
     tok  |-> [start |-> start, length |-> length]]

ExpectedRParen == "Parser error: Expected ')' after expression"

ExpectedFactor == "Parser error: expected number, identifier, or '(' "

ExpectedSemiPrint == "Parser error: Expected ';' after print expression"

ExpectedSemiAssign == "Parser error: Expected ';' after assignment"

ExpectedSemiExpr == "Parser error: Expected ';' after exoression"

ExpectedEqual == "Parser error: expected '=' after identifier for assignt "

Fail(p, message) == [ok |-> FALSE, p |-> p, err |-> message]

\* expect(type, message)
expect(p, type, message) ==
    IF p.current.type = type
    THEN [ok |-> TRUE, p |-> advance_parser(p), err |-> NoError]
    ELSE Fail(p, message)

RECURSIVE parse_expression(_)

\* a rule's result: the tree built and the parser after it
Parsed(expr, p) == [ok |-> TRUE, expr |-> expr, p |-> p, err |-> NoError]

\* parser_factor after expect(TOKEN_RPAREN, ...) returned e
factor_closed(expr, e) == IF ~e.ok THEN e ELSE Parsed(expr, e.p)

\* parser_factor after parse_expression() returned inside
factor_inside(inside) ==
    IF ~inside.ok THEN inside
    ELSE factor_closed(inside.expr,
                       expect(inside.p, "TOKEN_RPAREN", ExpectedRParen))

\* the text strtod reads: the token, cut to sizeof(temp) - 1 characters
number_text(tok) ==
    SubSeq(source, tok.start,
           tok.start + (IF tok.length >= SizeofTemp
                        THEN SizeofTemp - 1
                        ELSE tok.length) - 1)

parser_factor(p) ==
    IF p.current.type = "TOKEN_NUMBER"
    THEN Parsed(new_number_expr(strtod(number_text(p.current))),
                advance_parser(p))
    ELSE IF p.current.type = "TOKEN_IDENTIFIER"
    THEN Parsed(new_variable_expr(p.current.start, p.current.length),
                advance_parser(p))
    ELSE IF p.current.type = "TOKEN_LPAREN"
    THEN factor_inside(parse_expression(advance_parser(p)))
    ELSE Fail(p, ExpectedFactor)

RECURSIVE parser_term_loop(_, _)

\* the body of parser_term's loop after parser_factor() returned right
parser_term_step(expr, op, right) ==
    IF ~right.ok THEN right
    ELSE parser_term_loop(new_binary_expr(expr, op, right.expr), right.p)

\* parser_term's loop taking + and - too: one precedence level for all four
parser_term_loop_flat(expr, p) ==
    IF p.current.type \in {"TOKEN_STAR", "TOKEN_SLASH", "TOKEN_PLUS", "TOKEN_MINUS"}
    THEN parser_term_step(expr, p.current.type, parser_factor(advance_parser(p)))
    ELSE Parsed(expr, p)

\* the while loop of parser_term, entered with expr built so far
parser_term_loop(expr, p) ==
    IF p.current.type = "TOKEN_STAR" \/ p.current.type = "TOKEN_SLASH"
    THEN parser_term_step(expr, p.current.type, parser_factor(advance_parser(p)))
    ELSE Parsed(expr, p)

\* parser_term after its first parser_factor()
parser_term_first(first) ==
    IF ~first.ok THEN first ELSE parser_term_loop(first.expr, first.p)

parser_term(p) == parser_term_first(parser_factor(p))

RECURSIVE parse_expression_loop(_, _)

\* the body of parse_expression's loop after parser_term() returned right
parse_expression_step(expr, op, right) ==
    IF ~right.ok THEN right
    ELSE parse_expression_loop(new_binary_expr(expr, op, right.expr), right.p)

\* the while loop of parse_expression
parse_expression_loop(expr, p) ==
    IF p.current.type = "TOKEN_PLUS" \/ p.current.type = "TOKEN_MINUS"
    THEN parse_expression_step(expr, p.current.type,
                               parser_term(advance_parser(p)))
    ELSE Parsed(expr, p)

\* parse_expression after its first parser_term()
parse_expression_first(first) ==
    IF ~first.ok THEN first ELSE parse_expression_loop(first.expr, first.p)

parse_expression(p) == parse_expression_first(parser_term(p))

NoToken == [start |-> MsgPtr, length |-> 0]

\* new_stmt(type) with the fields the caller then fills in.  tok is a
\* history field: the span of an assignment's target as written.
new_stmt(type, name, expr, tok) ==
    [type |-> type, name |-> name, expr |-> expr, tok |-> tok]

\* a statement rule after expect(TOKEN_SEMICOLON, ...) returned semi
statement_closed(stmt, semi) ==
    IF ~semi.ok THEN semi
    ELSE [ok |-> TRUE, stmt |-> stmt, p |-> semi.p, err |-> NoError]

\* a statement rule after parse_expression() returned e
statement_expr(e, type, name, tok, message) ==
    IF ~e.ok THEN e
    ELSE statement_closed(new_stmt(type, name, e.expr, tok),
                          expect(e.p, "TOKEN_SEMICOLON", message))

\* the name copied into assign_stmt.name: cut to sizeof(name) - 1 characters
assign_name(name_token) ==
    SubSeq(source, name_token.start,
           name_token.start + (IF name_token.length >= SizeofStmtName
                               THEN SizeofStmtName - 1
                               ELSE name_token.length) - 1)

\* statement_identifier with the result of match(TOKEN_EQUAL) ignored: the
\* expression is parsed whether or not '=' was there
statement_identifier_unchecked(name_token, p1) ==
    statement_expr(parse_expression(IF p1.current.type = "TOKEN_EQUAL"
                                    THEN advance_parser(p1)
                                    ELSE p1),
                   "STMT_ASSIGN", assign_name(name_token),
                   [start |-> name_token.start, length |-> name_token.length],
                   ExpectedSemiAssign)

\* parser_statement on an identifier, after advance_parser(): p1
statement_identifier(name_token, p1) ==
    IF p1.current.type = "TOKEN_EQUAL"
    THEN statement_expr(parse_expression(advance_parser(p1)), "STMT_ASSIGN",
                        assign_name(name_token),
                        [start |-> name_token.start, length |-> name_token.length],
                        ExpectedSemiAssign)
    ELSE Fail(p1, ExpectedEqual)

parser_statement(p) ==
    IF p.current.type = "TOKEN_PRINT"
    THEN statement_expr(parse_expression(advance_parser(p)), "STMT_PRINT",
                        <<>>, NoToken, ExpectedSemiPrint)
    ELSE IF p.current.type = "TOKEN_IDENTIFIER"
    THEN statement_identifier(p.current, advance_parser(p))
    ELSE statement_expr(parse_expression(p), "STMT_EXPR", <<>>, NoToken,
                        ExpectedSemiExpr)

------------------------------------------------------------------------------
(* Evaluator *)

UndefinedVariable == "Runtime error: use of undefined variable"

UnknownOperator == "Runtime error: unknown binary operator"

UnknownExprType == "Runtime error: unknown expression type."

Value(v) == [ok |-> TRUE, value |-> v, err |-> NoError]

RuntimeError(message) == [ok |-> FALSE, value |-> Zero, err |-> message]

DivisionByZero == "Runtime error: division by zero"

\* binary_op with a zero divisor made an error
binary_op_checked(op, left, right) ==
    CASE op = "TOKEN_PLUS"  -> Value(d_add(left, right))
      [] op = "TOKEN_MINUS" -> Value(d_sub(left, right))
      [] op = "TOKEN_STAR"  -> Value(d_mul(left, right))
      [] op = "TOKEN_SLASH" ->
            IF right.k = "fin" /\ right.n = 0
            THEN RuntimeError(DivisionByZero)
            ELSE Value(d_div(left, right))
      [] OTHER -> RuntimeError(UnknownOperator)

\* the switch on expr->as.binary.op
binary_op(op, left, right) ==
    CASE op = "TOKEN_PLUS"  -> Value(d_add(left, right))
      [] op = "TOKEN_MINUS" -> Value(d_sub(left, right))
      [] op = "TOKEN_STAR"  -> Value(d_mul(left, right))
      [] op = "TOKEN_SLASH" -> Value(d_div(left, right))
      [] OTHER -> RuntimeError(UnknownOperator)

\* case EXPR_BINARY after both operands were evaluated
binary_right(op, left, right) ==
    IF ~right.ok THEN right ELSE binary_op(op, left.value, right.value)

\* case EXPR_VARIABLE after find_var_slot returned slot
variable_slot(vs, slot) ==
    IF slot = NULL THEN RuntimeError(UndefinedVariable)
    ELSE Value(vs[slot].value)

RECURSIVE eval_expr(_, _)

\* case EXPR_BINARY after the left operand was evaluated: an exit(1) in it
\* leaves the right operand unevaluated
binary_left(expr, vs, left) ==
    IF ~left.ok THEN left
    ELSE binary_right(expr.op, left, eval_expr(expr.right, vs))

\* eval_expr(expr) over the table vs: [ok, value, err]; ok = FALSE is exit(1)
eval_expr(expr, vs) ==
    IF expr.type = "EXPR_NUMBER" THEN Value(expr.value)
    ELSE IF expr.type = "EXPR_VARIABLE"
    THEN variable_slot(vs, find_var_slot(vs, expr.name, Len(expr.name)))
    ELSE IF expr.type = "EXPR_BINARY"
    THEN binary_left(expr, vs, eval_expr(expr.left, vs))
    ELSE RuntimeError(UnknownExprType)

\* An entry of the effects history: statement idx printed value, or wrote
\* value to vars[slot].
Effect(idx, kind, slot, value) ==
    [idx |-> idx, kind |-> kind, slot |-> slot, value |-> value]

\* case STMT_ASSIGN after get_var_slot returned g: slot->value = value
assign_slot(idx, vs, value, g) ==
    IF ~g.ok THEN [ok |-> FALSE, vars |-> vs, eff |-> <<>>, err |-> g.err]
    ELSE [ok |-> TRUE,
          vars |-> [g.vars EXCEPT ![g.slot].value = value],
          eff |-> <<Effect(idx, "assign", g.slot, value)>>,
          err |-> NoError]

\* exect_stmt after eval_expr returned v
exect_value(stmt, idx, vs, v) ==
    IF ~v.ok THEN [ok |-> FALSE, vars |-> vs, eff |-> <<>>, err |-> v.err]
    ELSE IF stmt.type = "STMT_PRINT"
    THEN [ok |-> TRUE, vars |-> vs,
          eff |-> <<Effect(idx, "print", NULL, v.value)>>, err |-> NoError]
    ELSE IF stmt.type = "STMT_ASSIGN"
    THEN assign_slot(idx, vs, v.value,
                     get_var_slot(vs, stmt.name, Len(stmt.name)))
    ELSE [ok |-> TRUE, vars |-> vs, eff |-> <<>>, err |-> NoError]

\* exect_stmt(stmt), stmt being statement idx of the program:
\* [ok, vars, eff, err], eff the effects the call made
exect_stmt(stmt, idx, vs) == exect_value(stmt, idx, vs, eval_expr(stmt.expr, vs))

------------------------------------------------------------------------------
(* The lines main() reads.  Four families: programs of up to MaxStmts      *)
(* statements of StmtPool, "print E;" for every well-formed expression E   *)
(* of up to MaxExprOps operators and parenthesis pairs, every string of up *)
(* to MaxChunks lexical chunks, and fixed programs (the documented         *)
(* examples, names around the 64-byte name buffers, MAX_VARS and           *)
(* MAX_VARS + 1 distinct names).                                           *)

MaxStmts == 3

MaxExprOps == 3

MaxChunks == 3

RECURSIVE Flatten(_)
Flatten(ss) == IF ss = <<>> THEN <<>> ELSE Head(ss) \o Flatten(Tail(ss))

\* all sequences of at most n elements of S
RECURSIVE SeqsUpTo(_, _)
SeqsUpTo(S, n) ==
    IF n = 0 THEN {<<>>}
    ELSE LET shorter == SeqsUpTo(S, n - 1)
         IN  shorter \cup {Append(q, x) : q \in shorter, x \in S}

\* well-formed and malformed statements
StmtPool ==
    {<<"x", " ", "=", " ", "1", ";", " ">>,
     <<"x", " ", "=", " ", "2", ";", " ">>,
     <<"y", " ", "=", " ", "x", " ", "+", " ", "1", ";", " ">>,
     <<"p", "r", "i", "n", "t", " ", "x", ";", " ">>,
     <<"p", "r", "i", "n", "t", " ", "y", ";", " ">>,
     <<"p", "r", "i", "n", "t", " ", "1", ";", " ">>,
     <<"p", "r", "i", "n", "t", " ", "1", " ", "/", " ", "0", ";", " ">>,
     <<"x", " ", "=", " ", ";", " ">>,
     <<"x", ";", " ">>,
     <<"(", "x", ")", ";", " ">>,
     <<"@", " ">>,
     <<"p", "r", "i", "n", "t", " ", "2", " ">>}

PoolPrograms == {Flatten(q) : q \in SeqsUpTo(StmtPool, MaxStmts)}

ExprNums == {"0", "3"}

ExprOps == {"+", "-", "*", "/"}

\* the well-formed expressions of exactly n tokens
RECURSIVE ExprsOfLen(_)
ExprsOfLen(n) ==
    IF n = 1 THEN {<<d>> : d \in ExprNums}
    ELSE IF n < 1 \/ n % 2 = 0 THEN {}
    ELSE UNION {{a \o <<op>> \o b : a \in ExprsOfLen(i), op \in ExprOps,
                                    b \in ExprsOfLen(n - 1 - i)} : i \in 1..(n - 2)}
         \cup {<<"(">> \o a \o <<")">> : a \in ExprsOfLen(n - 2)}

WellFormedExprs == UNION {ExprsOfLen(n) : n \in 1..(2 * MaxExprOps + 1)}

ExprPrograms == {Print5 \o <<" ">> \o e \o <<";">> : e \in WellFormedExprs}

\* lexical chunks
LexChunks ==
    {<<"p", "r", "i", "n", "t">>,
     <<"P", "r", "i", "n", "t">>,
     <<"x">>,
     <<"1">>,
     <<"_">>,
     <<" ">>,
     <<"=">>,
     <<";">>,
     <<"+">>,
     <<"(">>,
     <<"@">>}

ChunkPrograms == {Flatten(q) : q \in SeqsUpTo(LexChunks, MaxChunks)}

\* the documented examples
Examples ==
    {<<"x", " ", "+", " ", "1", ";">>,
     <<"x", " ", "=", " ", "2", ";", " ", "x", " ", "*", " ", "2", ";">>,
     <<"(", "x", ")", ";", " ", "x", " ", "*", " ", "2", ";">>,
     <<"1", " ", "+", " ", "x", ";">>,
     <<"1", " ", "@", " ", "2", ";">>,
     <<"p", "r", "i", "n", "t", " ", "(", "1", ";">>,
     <<"p", "r", "i", "n", "t", " ", "(", "x", " ", "*", " ", "(", "1", " ", "+", " ", "2", ")", ")", ";">>,
     <<"x", " ", "=", " ", "1", ";", " ", "p", "r", "i", "n", "t", " ", "x", ";", " ", "@">>,
     <<"p", "r", "i", "n", "t", " ", "1", ";", " ", "x", " ", "=", " ", ";">>,
     <<"1", " ", "+", " ", "2", " ", "*", " ", "3", ";">>,
     <<"p", "r", "i", "n", "t", " ", "1", " ", "+", " ", "2", " ", "*", " ", "3", ";">>,
     <<"p", "r", "i", "n", "t", " ", "8", " ", "-", " ", "3", " ", "-", " ", "2", ";">>,
     <<"p", "r", "i", "n", "t", " ", "(", "1", " ", "+", " ", "2", ")", " ", "*", " ", "3", ";">>,
     <<"x", " ", "=", " ", "5", ";", " ", "p", "r", "i", "n", "t", " ", "x", " ", "+", " ", "1", ";">>,
     <<"x", " ", "=", " ", "1", ";", " ", "p", "r", "i", "n", "t", " ", "x", ";", " ", "x", " ", "=", " ", "2", ";", " ", "p", "r", "i", "n", "t", " ", "x", ";">>,
     <<"p", "r", "i", "n", "t", " ", "1", ";", " ", "p", "r", "i", "n", "t", " ", "y", ";", " ", "p", "r", "i", "n", "t", " ", "2", ";">>,
     <<"p", "r", "i", "n", "t", " ", "1", " ", "/", " ", "0", ";", " ", "p", "r", "i", "n", "t", " ", "2", ";">>,
     <<"p", "r", "i", "n", "t", " ", "0", " ", "/", " ", "0", ";", " ", "p", "r", "i", "n", "t", " ", "2", ";">>,
     <<"x", " ", "=", " ", "1", " ", "/", " ", "0", ";", " ", "p", "r", "i", "n", "t", " ", "0", " ", "-", " ", "x", ";", " ", "p", "r", "i", "n", "t", " ", "2", ";">>,
     <<"p", "r", "i", "n", "t", "x", " ", "=", " ", "1", ";", " ", "p", "r", "i", "n", "t", "1", " ", "=", " ", "2", ";", " ", "P", "r", "i", "n", "t", " ", "=", " ", "3", ";", " ", "_", "p", "r", "i", "n", "t", " ", "=", " ", "4", ";", " ", "p", "r", "i", "n", "t", " ", "p", "r", "i", "n", "t", "x", " ", "+", " ", "P", "r", "i", "n", "t", ";">>,
     <<"p", "r", "i", "n", "t", " ", "1", "2", "a", "b", "c", ";">>,
     <<"p", "r", "i", "n", "t", " ", "3", ".", "1", "4", ";">>,
     <<"x", " ", "=", " ", "1", ";", "\n">>,
     <<"\t", "p", "r", "i", "n", "t", " ", " ", "2", " ", ";", "\r", "\n">>}

Repeat(c, n) == [i \in 1..n |-> c]

\* two names that agree on their first SizeofVarName - 1 characters
LongA == Repeat("a", SizeofVarName - 1) \o <<"b">>

LongB == Repeat("a", SizeofVarName - 1) \o <<"c">>

\* a name that fills the buffer exactly
Name63 == Repeat("n", SizeofVarName - 1)

LongNamePrograms ==
    {LongA \o <<"=", "2", ";">> \o Print5 \o <<" ">> \o LongB \o <<";">>,
     LongA \o <<"=", "2", ";">> \o LongB \o <<"=", "3", ";">>
         \o Print5 \o <<" ">> \o LongA \o <<";">>,
     Name63 \o <<"=", "2", ";">> \o Print5 \o <<" ">> \o Name63 \o <<";">>,
     Name63 \o <<"=", "2", ";">> \o Print5 \o <<" ">> \o Name63 \o <<"n", ";">>}

NameChars == <<"a", "b", "c", "d", "e", "f", "g", "h", "i", "j">>

\* the i-th of the distinct two-character names
NthName(i) == <<NameChars[(i \div 10) + 1], NameChars[(i % 10) + 1]>>

\* "aa=3;ab=3;..." assigning n distinct names
AssignDistinct(n) ==
    [i \in 1..(5 * n) |->
        (NthName((i - 1) \div 5) \o <<"=", "3", ";">>)[((i - 1) % 5) + 1]]

ManyVarPrograms ==
    {AssignDistinct(MAX_VARS) \o Print5 \o <<" ">> \o NthName(MAX_VARS - 1) \o <<";">>,
     AssignDistinct(MAX_VARS + 1) \o Print5 \o <<" ">> \o NthName(0) \o <<";">>}

Inputs ==
    PoolPrograms \cup ExprPrograms \cup ChunkPrograms \cup Examples
        \cup LongNamePrograms \cup ManyVarPrograms

------------------------------------------------------------------------------
(* main() *)

\* a static Token before any assignment: all zero
token_zeroed == [type |-> "TOKEN_EOF", start |-> MsgPtr, length |-> 0]

Init ==
    /\ source \in {body \o <<NUL>> : body \in Inputs}
    /\ lexer = [start |-> MsgPtr, current |-> MsgPtr]
    /\ parser = [current |-> token_zeroed]
    /\ pc = "init_lexer"
    /\ program = <<>>
    /\ current = NULL
    /\ vars = vars_zeroed
    /\ effects = <<>>
    /\ err = NoError

\* init_lexer(buffer)
InitLexer ==
    /\ pc = "init_lexer"
    /\ lexer' = init_lexer
    /\ pc' = "init_parser"
    /\ UNCHANGED <<source, parser, program, current, vars, effects, err>>

\* init_parser()
InitParser ==
    /\ pc = "init_parser"
    /\ \E p \in {advance_parser([current |-> parser.current, lexer |-> lexer])} :
           /\ parser' = [current |-> p.current]
           /\ lexer' = p.lexer
    /\ pc' = "parser_program"
    /\ UNCHANGED <<source, program, current, vars, effects, err>>

\* ParseStatement as an interpreter would do it: the statement is executed
\* as soon as it is parsed
ParseStatementEager ==
    /\ pc = "parser_program"
    /\ parser.current.type # "TOKEN_EOF"
    /\ \E r \in {parser_statement([current |-> parser.current, lexer |-> lexer])} :
           /\ parser' = [current |-> r.p.current]
           /\ lexer' = r.p.lexer
           /\ program' = IF r.ok THEN Append(program, r.stmt) ELSE program
           /\ pc' = IF r.ok THEN "parser_program" ELSE "exit"
           /\ err' = r.err
           /\ vars' = IF r.ok
                      THEN exect_stmt(r.stmt, Len(program) + 1, vars).vars
                      ELSE vars
           /\ effects' = IF r.ok
                         THEN effects \o exect_stmt(r.stmt, Len(program) + 1, vars).eff
                         ELSE effects
    /\ UNCHANGED <<source, current>>

\* one iteration of the loop of parser_program: parser_statement() and the
\* append to the list, or the exit(1) of a parse error
ParseStatement ==
    /\ pc = "parser_program"
    /\ parser.current.type # "TOKEN_EOF"
    /\ \E r \in {parser_statement([current |-> parser.current, lexer |-> lexer])} :
           /\ parser' = [current |-> r.p.current]
           /\ lexer' = r.p.lexer
           /\ program' = IF r.ok THEN Append(program, r.stmt) ELSE program
           /\ pc' = IF r.ok THEN "parser_program" ELSE "exit"
           /\ err' = r.err
    /\ UNCHANGED <<source, current, vars, effects>>

\* parser_program returns head; exec_program starts at it
ParserProgramReturn ==
    /\ pc = "parser_program"
    /\ parser.current.type = "TOKEN_EOF"
    /\ pc' = "exec_program"
    /\ current' = 1
    /\ UNCHANGED <<source, lexer, parser, program, vars, effects, err>>

\* ExecStmt going on to the next statement after a statement failed
ExecStmtContinue ==
    /\ pc = "exec_program"
    /\ current <= Len(program)
    /\ \E r \in {exect_stmt(program[current], current, vars)} :
           /\ vars' = r.vars
           /\ effects' = effects \o r.eff
           /\ err' = r.err
           /\ pc' = "exec_program"
           /\ current' = current + 1
    /\ UNCHANGED <<source, lexer, parser, program>>

\* ExecStmt without "current = current->next"
ExecStmtStuck ==
    /\ pc = "exec_program"
    /\ current <= Len(program)
    /\ \E r \in {exect_stmt(program[current], current, vars)} :
           /\ vars' = r.vars
           /\ effects' = effects \o r.eff
           /\ err' = r.err
           /\ pc' = IF r.ok THEN "exec_program" ELSE "exit"
           /\ current' = current
    /\ UNCHANGED <<source, lexer, parser, program>>

\* one iteration of the loop of exec_program
ExecStmt ==
    /\ pc = "exec_program"
    /\ current <= Len(program)
    /\ \E r \in {exect_stmt(program[current], current, vars)} :
           /\ vars' = r.vars
           /\ effects' = effects \o r.eff
           /\ err' = r.err
           /\ pc' = IF r.ok THEN "exec_program" ELSE "exit"
           /\ current' = IF r.ok THEN current + 1 ELSE current
    /\ UNCHANGED <<source, lexer, parser, program>>

\* current == NULL: exec_program returns and main returns 0
ExecProgramReturn ==
    /\ pc = "exec_program"
    /\ current > Len(program)
    /\ pc' = "done"
    /\ UNCHANGED <<source, lexer, parser, program, current, vars, effects, err>>

Next ==
    \/ InitLexer
    \/ InitParser
    \/ ParseStatement
    \/ ParserProgramReturn
    \/ ExecStmt
    \/ ExecProgramReturn

Spec == Init /\ [][Next]_allvars

------------------------------------------------------------------------------
(* scan_token() called again and again on a buffer, as advance_parser does *)

LexInit ==
    /\ source \in {body \o <<NUL>> : body \in Inputs}
    /\ lexer = init_lexer
    /\ parser = [current |-> token_zeroed]
    /\ pc = "scan_token"
    /\ program = <<>>
    /\ current = NULL
    /\ vars = vars_zeroed
    /\ effects = <<>>
    /\ err = NoError

AdvanceParser ==
    /\ pc = "scan_token"
    /\ \E p \in {advance_parser([current |-> parser.current, lexer |-> lexer])} :
           /\ parser' = [current |-> p.current]
           /\ lexer' = p.lexer
    /\ UNCHANGED <<source, pc, program, current, vars, effects, err>>

LexNext == AdvanceParser

LexSpec == LexInit /\ [][LexNext]_allvars

------------------------------------------------------------------------------
(* Helpers of the properties *)

ParseErrors ==
    {ExpectedRParen, ExpectedFactor, ExpectedSemiPrint, ExpectedSemiAssign,
     ExpectedSemiExpr, ExpectedEqual}

\* the token error_token builds for an unexpected character
IsErrorToken(tok) ==
    /\ tok.type = "TOKEN_EOF"
    /\ tok.start = MsgPtr
    /\ tok.length = UnexpectedCharacterLen

\* the characters of a span of the source, uncut
SpanText(tok) == SubSeq(source, tok.start, tok.start + tok.length - 1)

\* the variable-reference nodes of a tree
RECURSIVE VarNodes(_)
VarNodes(expr) ==
    IF expr.type = "EXPR_VARIABLE" THEN {expr}
    ELSE IF expr.type = "EXPR_BINARY"
    THEN VarNodes(expr.left) \cup VarNodes(expr.right)
    ELSE {}

\* the '/' nodes of a tree
RECURSIVE DivNodes(_)
DivNodes(expr) ==
    IF expr.type = "EXPR_BINARY"
    THEN (IF expr.op = "TOKEN_SLASH" THEN {expr} ELSE {})
            \cup DivNodes(expr.left) \cup DivNodes(expr.right)
    ELSE {}

IsZero(v) == v.k = "fin" /\ v.n = 0

Terminated == pc \in {"done", "exit"}

Executing == pc = "exec_program" /\ current <= Len(program)

------------------------------------------------------------------------------
(* C1 *)

\* C1: once the lexer has reached a character that starts no token (the
\* parser holds the token error_token built), the run does not go on to
\* execute the program and does not complete successfully.
C1_LexErrorNeverSucceeds ==
    IsErrorToken(parser.current) => pc \notin {"exec_program", "done"}

------------------------------------------------------------------------------
(* C2 *)

\* C2: when the run has exited on a parse error, no statement has been
\* executed: nothing was printed or written and the table is as at start.
C2_ParseErrorBeforeExecution ==
    (pc = "exit" /\ err \in ParseErrors) =>
        (effects = <<>> /\ vars = vars_zeroed /\ current = NULL)

\* a parse error after at least one well-formed statement was parsed
C2_Witness ==
    /\ pc = "exit"
    /\ err = ExpectedFactor
    /\ Len(program) >= 1
    /\ program[1].type = "STMT_PRINT"

------------------------------------------------------------------------------
(* C3 *)

ExprChars == Digits \cup ExprOps \cup {"(", ")", " "}

\* the text between "print " and ";" of a line that is one print statement
ExprText == SubSeq(source, 7, Len(source) - 2)

\* no blank stands between two digits, so that dropping the blanks joins no
\* two numbers
NoSplitNumber(e) ==
    \A i \in 1..Len(e) : \A j \in (i + 2)..Len(e) :
        (isdigit(e[i]) /\ isdigit(e[j])) =>
            \E m \in (i + 1)..(j - 1) : e[m] # " "

IsPrintExprSource ==
    /\ Len(source) >= 9
    /\ SubSeq(source, 1, 6) = Print5 \o <<" ">>
    /\ source[Len(source) - 1] = ";"
    /\ \A i \in 7..(Len(source) - 2) : source[i] \in ExprChars
    /\ NoSplitNumber(ExprText)

NotBlank(c) == c # " "

\* the nesting depth of position i of e
Depth(e, i) ==
    Cardinality({j \in 1..(i - 1) : e[j] = "("})
        - Cardinality({j \in 1..(i - 1) : e[j] = ")"})

\* the positions of the operators of ops that stand outside all parentheses
TopLevel(e, ops) == {i \in 1..Len(e) : e[i] \in ops /\ Depth(e, i) = 0}

Max(S) == CHOOSE x \in S : \A y \in S : y <= x

\* the position at which the reference splits e: the last top-level + or -,
\* else the last top-level * or /, else 0
SplitAt(e) ==
    IF TopLevel(e, {"+", "-"}) # {} THEN Max(TopLevel(e, {"+", "-"}))
    ELSE IF TopLevel(e, {"*", "/"}) # {} THEN Max(TopLevel(e, {"*", "/"}))
    ELSE 0

\* e (without blanks) is a well-formed expression
RECURSIVE RefWellFormed(_)
RefWellFormed(e) ==
    IF e = <<>> THEN FALSE
    ELSE IF SplitAt(e) # 0
    THEN /\ RefWellFormed(SubSeq(e, 1, SplitAt(e) - 1))
         /\ RefWellFormed(SubSeq(e, SplitAt(e) + 1, Len(e)))
    ELSE IF e[1] = "(" /\ e[Len(e)] = ")"
    THEN RefWellFormed(SubSeq(e, 2, Len(e) - 1))
    ELSE \A i \in 1..Len(e) : isdigit(e[i])

\* the decimal value of a string of digits, most significant digit first
RECURSIVE RefNumber(_, _)
RefNumber(e, acc) ==
    IF e = <<>> THEN acc ELSE RefNumber(Tail(e), 10 * acc + DigitVal(Head(e)))

RefApply(op, a, b) ==
    CASE op = "+" -> d_add(a, b)
      [] op = "-" -> d_sub(a, b)
      [] op = "*" -> d_mul(a, b)
      [] op = "/" -> d_div(a, b)

\* the reference value of a well-formed e: * and / bind tighter than + and
\* -, equal precedence groups left to right, parentheses are a unit
RECURSIVE RefEval(_)
RefEval(e) ==
    IF SplitAt(e) # 0
    THEN RefApply(e[SplitAt(e)],
                  RefEval(SubSeq(e, 1, SplitAt(e) - 1)),
                  RefEval(SubSeq(e, SplitAt(e) + 1, Len(e))))
    ELSE IF e[1] = "("
    THEN RefEval(SubSeq(e, 2, Len(e) - 1))
    ELSE Fin(1, RefNumber(e, 0), 1)

\* C3: the line being "print E;" with E a well-formed expression over
\* number literals, + - * / and parentheses, the run raises no error and
\* what it prints is the reference value of E.
C3_ExpressionValue ==
    (IsPrintExprSource /\ RefWellFormed(SelectSeq(ExprText, NotBlank))) =>
        /\ pc # "exit"
        /\ pc = "done" =>
              effects = <<Effect(1, "print", NULL,
                                 RefEval(SelectSeq(ExprText, NotBlank)))>>

\* "print 3-3*0-3;": a run that printed the value of an expression in which
\* both precedence and grouping matter
C3_Witness ==
    /\ pc = "done"
    /\ IsPrintExprSource
    /\ ExprText = <<"3", "-", "3", "*", "0", "-", "3">>
    /\ effects = <<Effect(1, "print", NULL, Fin(1, 0, 1))>>

------------------------------------------------------------------------------
(* C4 *)

\* the effects that are writes by an assignment whose target, as written in
\* the source, is exactly n
WritesTo(n) ==
    {i \in 1..Len(effects) :
        /\ effects[i].kind = "assign"
        /\ SpanText(program[effects[i].idx].tok) = n}

\* C4: in the statement about to be executed, a reference to the name n (as
\* written in the source, whatever its length) evaluates to the value of
\* the most recent executed assignment to exactly n, and fails as undefined
\* if there is none.
C4_ReadsExactName ==
    Executing =>
        \A v \in VarNodes(program[current].expr) :
            IF WritesTo(SpanText(v.tok)) = {}
            THEN eval_expr(v, vars) = RuntimeError(UndefinedVariable)
            ELSE eval_expr(v, vars)
                    = Value(effects[Max(WritesTo(SpanText(v.tok)))].value)

------------------------------------------------------------------------------
(* C5 *)

\* reference semantics of a parsed tree over an environment env, a function
\* from names to values
RECURSIVE RefDefined(_, _)
RefDefined(expr, env) ==
    CASE expr.type = "EXPR_NUMBER" -> TRUE
      [] expr.type = "EXPR_VARIABLE" -> expr.name \in DOMAIN env
      [] expr.type = "EXPR_BINARY" ->
            RefDefined(expr.left, env) /\ RefDefined(expr.right, env)

RECURSIVE RefValue(_, _)
RefValue(expr, env) ==
    CASE expr.type = "EXPR_NUMBER" -> expr.value
      [] expr.type = "EXPR_VARIABLE" -> env[expr.name]
      [] expr.type = "EXPR_BINARY" ->
            CASE expr.op = "TOKEN_PLUS" ->
                    d_add(RefValue(expr.left, env), RefValue(expr.right, env))
              [] expr.op = "TOKEN_MINUS" ->
                    d_sub(RefValue(expr.left, env), RefValue(expr.right, env))
              [] expr.op = "TOKEN_STAR" ->
                    d_mul(RefValue(expr.left, env), RefValue(expr.right, env))
              [] expr.op = "TOKEN_SLASH" ->
                    d_div(RefValue(expr.left, env), RefValue(expr.right, env))

RefEffect(idx, kind, name, value) ==
    [idx |-> idx, kind |-> kind, name |-> name, value |-> value]

\* the reference run after one more statement: nothing happens once a
\* statement has failed; a statement with an undefined name fails
RefStep(st, stmt, idx) ==
    IF st.failed # 0 THEN st
    ELSE IF ~RefDefined(stmt.expr, st.env) THEN [st EXCEPT !.failed = idx]
    ELSE IF stmt.type = "STMT_PRINT"
    THEN [st EXCEPT !.eff = Append(@, RefEffect(idx, "print", <<>>,
                                               RefValue(stmt.expr, st.env)))]
    ELSE IF stmt.type = "STMT_ASSIGN"
    THEN [st EXCEPT
            !.eff = Append(@, RefEffect(idx, "assign", stmt.name,
                                        RefValue(stmt.expr, st.env))),
            !.env = [n \in DOMAIN st.env \cup {stmt.name} |->
                        IF n = stmt.name THEN RefValue(stmt.expr, st.env)
                        ELSE st.env[n]]]
    ELSE st

\* the reference run of the first k statements of the program, in order:
\* statements lo..hi from st, as the first half followed by the second
RECURSIVE RefRange(_, _, _)
RefRange(st, lo, hi) ==
    IF st.failed # 0 \/ lo > hi THEN st
    ELSE IF lo = hi THEN RefStep(st, program[lo], lo)
    ELSE RefRange(RefRange(st, lo, (lo + hi) \div 2), ((lo + hi) \div 2) + 1, hi)

RefRun(k) == RefRange([env |-> <<>>, eff |-> <<>>, failed |-> 0], 1, k)

\* the effects made so far, a write named by the name of the slot written
EffectsMade ==
    [i \in 1..Len(effects) |->
        RefEffect(effects[i].idx, effects[i].kind,
                  IF effects[i].kind = "assign"
                  THEN vars[effects[i].slot].name
                  ELSE <<>>,
                  effects[i].value)]

\* C5: while and after exec_program runs, the effects made are exactly the
\* effects of the statements before the cursor, in source order, none of
\* which failed; a run that is done has passed every statement; a run that
\* exited on an undefined name stands on the first statement that fails,
\* and made no effect of it or of a later one.
C5_EffectsInSourceOrder ==
    (current # NULL) =>
        /\ current \in 1..(Len(program) + 1)
        /\ RefRun(current - 1).failed = 0
        /\ RefRun(current - 1).eff = EffectsMade
        /\ pc = "done" => current = Len(program) + 1
        /\ (pc = "exit" /\ err = UndefinedVariable) =>
              RefRun(current).failed = current
        /\ (pc = "exec_program" /\ current <= Len(program)
                /\ RefRun(current).failed = current) =>
              ~exect_stmt(program[current], current, vars).ok

\* "print 1; print y; print 2;"-like runs: a statement failed after an
\* earlier one had its effect and before a later one
C5_Witness ==
    /\ pc = "exit"
    /\ err = UndefinedVariable
    /\ current = 2
    /\ Len(program) = 3
    /\ Len(effects) = 1
    /\ program[3].type = "STMT_PRINT"

------------------------------------------------------------------------------
(* C6 *)

\* C6: an assignment whose right-hand side evaluates never fails, however
\* many distinct names are bound already.
C6_AssignmentNeverFails ==
    (Executing /\ program[current].type = "STMT_ASSIGN"
        /\ eval_expr(program[current].expr, vars).ok) =>
        exect_stmt(program[current], current, vars).ok

------------------------------------------------------------------------------
(* C7 *)

\* every variable of the tree is bound in the table
AllBound(expr, vs) ==
    \A v \in VarNodes(expr) : find_var_slot(vs, v.name, Len(v.name)) # NULL

------------------------------------------------------------------------------
(* C8 *)

\* C8: a statement that starts with an identifier becomes an assignment, or
\* fails inside the assignment rule, if its second token is '=', and fails
\* with the "expected '='" parse error otherwise; an expression statement
\* is built only from a statement that starts with a number or '('.
C8_IdentifierDispatch ==
    [][(pc = "parser_program" /\ parser.current.type # "TOKEN_EOF") =>
         /\ (parser.current.type = "TOKEN_IDENTIFIER"
                /\ scan_token(lexer).tok.type = "TOKEN_EQUAL") =>
               \/ pc' = "exit" /\ err' \in {ExpectedFactor, ExpectedRParen,
                                             ExpectedSemiAssign}
               \/ /\ pc' = "parser_program"
                  /\ Len(program') = Len(program) + 1
                  /\ program'[Len(program')].type = "STMT_ASSIGN"
         /\ (parser.current.type = "TOKEN_IDENTIFIER"
                /\ scan_token(lexer).tok.type # "TOKEN_EQUAL") =>
               /\ pc' = "exit"
               /\ err' = ExpectedEqual
               /\ program' = program
         /\ (Len(program') = Len(program) + 1
                /\ program'[Len(program')].type = "STMT_EXPR") =>
               parser.current.type \in {"TOKEN_NUMBER", "TOKEN_LPAREN"}
      ]_allvars

\* "(x); x * 2;": "x * 2;" rejected with the "expected '='" error after
\* "(x);" was accepted as an expression statement
C8_Witness ==
    /\ pc = "exit"
    /\ err = ExpectedEqual
    /\ Len(program) >= 1
    /\ program[1].type = "STMT_EXPR"
    /\ VarNodes(program[1].expr) # {}
    /\ source[parser.current.start] = "*"

------------------------------------------------------------------------------
(* C9 *)

IsIdentChar(c) == is_alpha_or_underscore(c) \/ isdigit(c)

\* C9: a token scan_token returned from the buffer starts on a digit iff it
\* is a number, and on a letter or underscore iff it is an identifier or
\* PRINT; it covers only characters of its class and the character after it
\* is not of its class; and it is PRINT iff its text is exactly "print".
C9_MaximalMunchAndKeyword ==
    (pc = "scan_token" /\ parser.current.start # MsgPtr
        /\ parser.current.type # "TOKEN_EOF") =>
        /\ parser.current.start = lexer.start
        /\ parser.current.length = lexer.current - lexer.start
        /\ parser.current.length >= 1
        /\ isdigit(source[lexer.start]) <=> parser.current.type = "TOKEN_NUMBER"
        /\ is_alpha_or_underscore(source[lexer.start])
              <=> parser.current.type \in {"TOKEN_IDENTIFIER", "TOKEN_PRINT"}
        /\ parser.current.type = "TOKEN_NUMBER" =>
              /\ \A i \in lexer.start..(lexer.current - 1) : isdigit(source[i])
              /\ ~isdigit(source[lexer.current])
        /\ parser.current.type \in {"TOKEN_IDENTIFIER", "TOKEN_PRINT"} =>
              /\ \A i \in lexer.start..(lexer.current - 1) : IsIdentChar(source[i])
              /\ ~IsIdentChar(source[lexer.current])
        /\ parser.current.type = "TOKEN_PRINT"
              <=> SpanText(parser.current) = Print5

\* "print" followed by "x" or "1" or "_" scanned as one identifier
C9_Witness ==
    /\ pc = "scan_token"
    /\ parser.current.type = "TOKEN_IDENTIFIER"
    /\ parser.current.length = 6
    /\ SubSeq(source, lexer.start, lexer.start + 4) = Print5

------------------------------------------------------------------------------
(* C10 *)

\* scan_token called with the cursor at i, returning r, has moved the
\* cursor forward, or returns EOF with the cursor left on the NUL; the
\* cursor never passes the NUL; and after an EOF read from the buffer the
\* cursor rests on the NUL and a further call returns the same
ScanProgressOf(i, r) ==
    /\ r.lexer.current <= Len(source)
    /\ \/ r.lexer.current > i
       \/ /\ r.tok.type = "TOKEN_EOF"
          /\ r.lexer.current = i
          /\ source[i] = NUL
    /\ (r.tok.type = "TOKEN_EOF" /\ r.tok.start # MsgPtr) =>
          /\ source[r.lexer.current] = NUL
          /\ scan_token(r.lexer) = r

ScanProgressFrom(i) ==
    ScanProgressOf(i, scan_token([start |-> i, current |-> i]))

ScanProgress == \A i \in 1..Len(source) : ScanProgressFrom(i)

\* an iteration of the loop of parser_program consumes input or exits; an
\* iteration of the loop of exec_program moves to the next statement or
\* exits
LoopProgress ==
    /\ (pc = "parser_program" /\ pc' = "parser_program") =>
          /\ lexer'.current > lexer.current
          /\ Len(program') = Len(program) + 1
    /\ (pc = "exec_program" /\ pc' = "exec_program") => current' = current + 1

\* how far main() is from its end
Stage ==
    CASE pc = "init_lexer" -> 4
      [] pc = "init_parser" -> 3
      [] pc = "parser_program" -> 2
      [] pc = "exec_program" -> 1
      [] OTHER -> 0

\* a bound on the steps main() has left: the stages to come, the characters
\* parser_program has yet to read, the statements exec_program has yet to
\* visit
Rank ==
    Stage * (Len(source) + 2)
        + (IF pc = "parser_program" THEN Len(source) - lexer.current
           ELSE IF pc = "exec_program" THEN Len(program) + 1 - current
           ELSE 0)

TokenTypes ==
    {"TOKEN_EOF", "TOKEN_NUMBER", "TOKEN_IDENTIFIER", "TOKEN_PLUS",
     "TOKEN_MINUS", "TOKEN_STAR", "TOKEN_SLASH", "TOKEN_EQUAL",
     "TOKEN_SEMICOLON", "TOKEN_LPAREN", "TOKEN_RPAREN", "TOKEN_PRINT"}

\* the guard of one of the steps of main() holds
CanStep ==
    \/ pc \in {"init_lexer", "init_parser"}
    \/ pc = "parser_program" /\ parser.current.type \in TokenTypes
    \/ pc = "exec_program" /\ current \in 1..(Len(program) + 1)

\* C10: every scan_token call and every loop iteration makes progress, a
\* run that has not reached normal completion or an error exit can take a
\* step, and every step lowers a natural number: so every run reaches
\* normal completion or an error exit.
C10_Terminates ==
    /\ [](Rank \in Nat /\ (Terminated \/ CanStep))
    /\ []ScanProgress
    /\ [][LoopProgress /\ Rank' < Rank]_allvars

\* a run of several statements, with blanks before the NUL, that completed
\* with the cursor resting on the NUL
C10_Witness ==
    /\ pc = "done"
    /\ Len(program) >= 3
    /\ source[lexer.current] = NUL
    /\ lexer.current = Len(source)
    /\ source[Len(source) - 1] = " "

====
